---- MODULE Spec2Model ----
(***************************************************************************)
(* A model of the patristic tree library bundled in dist/tidytree.js:      *)
(* the Branch objects (an arena of records addressed by index), the        *)
(* traversals, the structural mutations, the distance queries and the      *)
(* Newick serialiser and parser.                                           *)
(*                                                                         *)
(* Numbers: a branch length is a JavaScript Number; the model keeps it as  *)
(* an integer count of 1/10000 units, so 0.0005 is 5 and 1 is 10000.       *)
(* Strings: a string is the sequence of its characters.                    *)
(***************************************************************************)
EXTENDS Integers, Sequences, FiniteSets, TLC

(* ---------------------------------------------------------------- bounds *)
\* Number of Branch objects that may be constructed.
MaxNodes == 5
\* Number of Branch objects of a tree that is written as Newick text.
MaxNewickNodes == 4
\* Number of mutations applied in sequence to a built tree.
MaxOps == 2
\* Number of calls of fixDistances made by the caller.
MaxFixes == 2

Nodes == 1..MaxNodes
\* JavaScript null, as the parent of a root.
Null == 0
\* Result marker of a call that ended in a thrown Error or TypeError.
Throw == -1

VARIABLES
  heap,    \* heap[b]: the fields of Branch object b
  used,    \* Branch objects 1..used have been constructed
  root,    \* the Branch the caller holds as the tree
  ops,     \* number of structural operations applied since the tree was built
  fixes,   \* number of fixDistances calls the caller has made
  last,    \* the last operation: name, receiver, argument, result, thrown?
  before,  \* heap and root as they were when the last operation was called
  text,    \* the last Newick string produced
  parsed,  \* the object form of the last tree returned by parseNewick
  result   \* the value the last operation returned, when it is not a Branch

vars == <<heap, used, root, ops, fixes, last, before, text, parsed, result>>

(* ------------------------------------------------------- Branch objects *)
\* new Branch(data): id, length and parent from data, the rest defaulted.
Branch(id, length, parent) ==
  [id |-> id, length |-> length, parent |-> parent, children |-> <<>>,
   depth |-> 0, height |-> 0, value |-> 1]

IsRoot(h, b) == h[b].parent = Null

IsLeaf(h, b) == Len(h[b].children) = 0

RECURSIVE GetRoot(_, _)
GetRoot(h, b) == IF IsRoot(h, b) THEN b ELSE GetRoot(h, h[b].parent)

\* Array.prototype.indexOf, 0-based, -1 when absent.
RECURSIVE IndexOfFrom(_, _, _)
IndexOfFrom(arr, x, k) ==
  IF k > Len(arr) THEN -1
  ELSE IF arr[k] = x THEN k - 1
  ELSE IndexOfFrom(arr, x, k + 1)

IndexOf(arr, x) == IndexOfFrom(arr, x, 1)

\* arr.splice(start, 1): a negative start counts from the end of the array.
Splice1(arr, start) ==
  LET n == Len(arr)
      s == IF start < 0 THEN (IF n + start < 0 THEN 0 ELSE n + start)
           ELSE (IF start > n THEN n ELSE start)
  IN  IF s >= n THEN arr
      ELSE SubSeq(arr, 1, s) \o SubSeq(arr, s + 2, n)

\* arr.splice(start, 1, item)
Splice1With(arr, start, item) ==
  LET n == Len(arr)
      s == IF start < 0 THEN (IF n + start < 0 THEN 0 ELSE n + start)
           ELSE (IF start > n THEN n ELSE start)
  IN  SubSeq(arr, 1, s) \o <<item>> \o SubSeq(arr, s + 2, n)

Includes(arr, x) == \E i \in DOMAIN arr : arr[i] = x

\* addChild(data) with data not a Branch: c is the new Branch object.
AddChildNew(h, self, c, id, length) ==
  [h EXCEPT ![c] = Branch(id, length, self),
            ![self].children = Append(@, c)]

\* addChild(data) with data a Branch: c.parent = this, this.children.push(c).
AddChildBranch(h, self, c) ==
  [h EXCEPT ![c].parent = self,
            ![self].children = Append(@, c)]

RECURSIVE GetDescendants(_, _, _)
RECURSIVE DescendantsFrom(_, _, _)
GetDescendants(h, b, includeSelf) ==
  (IF includeSelf THEN <<b>> ELSE <<>>) \o
  (IF IsLeaf(h, b) THEN <<>> ELSE DescendantsFrom(h, b, 1))

DescendantsFrom(h, b, k) ==
  IF k > Len(h[b].children) THEN <<>>
  ELSE GetDescendants(h, h[b].children[k], TRUE) \o DescendantsFrom(h, b, k + 1)

RECURSIVE GetLeaves(_, _)
RECURSIVE LeavesFrom(_, _, _)
GetLeaves(h, b) ==
  IF IsLeaf(h, b) THEN <<b>> ELSE LeavesFrom(h, b, 1)

LeavesFrom(h, b, k) ==
  IF k > Len(h[b].children) THEN <<>>
  ELSE GetLeaves(h, h[b].children[k]) \o LeavesFrom(h, b, k + 1)

RECURSIVE IsConsistent(_, _)
IsConsistent(h, b) ==
  /\ IsRoot(h, b) \/ Includes(h[h[b].parent].children, b)
  /\ \A i \in DOMAIN h[b].children : h[h[b].children[i]].parent = b
  /\ \A i \in DOMAIN h[b].children : IsConsistent(h, h[b].children[i])

(* ------------------------------------------------------------ traversal *)
\* The state a traversal threads through its callbacks: the heap, whether
\* an exception is propagating, and fixDistances' closure variable maxdepth.
Walk(h) == [h |-> h, threw |-> FALSE, maxdepth |-> 0, visited |-> <<>>]

RECURSIVE SumValues(_, _, _)
SumValues(h, arr, k) ==
  IF k > Len(arr) THEN 0 ELSE h[arr[k]].value + SumValues(h, arr, k + 1)

\* fixDistances' first callback.
SetDepth(st, d) ==
  IF IsRoot(st.h, d) THEN st
  ELSE LET dep == st.h[st.h[d].parent].depth + 1
       IN  [st EXCEPT !.h[d].depth = dep,
                      !.maxdepth = IF dep > @ THEN dep ELSE @]

\* fixDistances' second callback.
SetHeight(st, d) ==
  [st EXCEPT !.h[d].height = st.maxdepth - st.h[d].depth,
             !.h[d].value = @ + SumValues(st.h, st.h[d].children, 1)]

\* The threshold of consolidate, 0.0005.
NearZero == 5

\* excise() with the children's lengths left as they are.
RECURSIVE ExciseChildrenSameLength(_, _, _)
ExciseChildrenSameLength(h, self, k) ==
  IF k > Len(h[self].children) THEN h
  ELSE LET child == h[self].children[k]
           h1 == [h EXCEPT ![child].parent = h[self].parent]
           h2 == IF IsRoot(h1, self) THEN h1
                 ELSE [h1 EXCEPT ![h1[self].parent].children = Append(@, child)]
       IN  ExciseChildrenSameLength(h2, self, k + 1)

\* excise(): the body of its eachChild loop, for the children from index k on.
RECURSIVE ExciseChildren(_, _, _)
ExciseChildren(h, self, k) ==
  IF k > Len(h[self].children) THEN h
  ELSE LET child == h[self].children[k]
           h1 == [h EXCEPT ![child].length = @ + h[self].length,
                           ![child].parent = h[self].parent]
           h2 == IF IsRoot(h1, self) THEN h1
                 ELSE [h1 EXCEPT ![h1[self].parent].children = Append(@, child)]
       IN  ExciseChildren(h2, self, k + 1)

\* excise() without its test for a root with several children.
ExciseUnguarded(st, self) ==
  IF st.threw THEN st
  ELSE LET h1 == ExciseChildren(st.h, self, 1)
           p  == h1[self].parent
       IN  IF p = Null THEN [st EXCEPT !.h = h1, !.threw = TRUE]
           ELSE [st EXCEPT !.h = [h1 EXCEPT ![p].children =
                                     Splice1(@, IndexOf(h1[p].children, self))]]

\* excise(). Reading .children of a null parent is a TypeError, raised after
\* the children have been rewritten.
Excise(st, self) ==
  IF st.threw THEN st
  ELSE IF IsRoot(st.h, self) /\ Len(st.h[self].children) > 1
  THEN [st EXCEPT !.threw = TRUE]
  ELSE LET h1 == ExciseChildren(st.h, self, 1)
           p  == h1[self].parent
       IN  IF p = Null THEN [st EXCEPT !.h = h1, !.threw = TRUE]
           ELSE [st EXCEPT !.h = [h1 EXCEPT ![p].children =
                                     Splice1(@, IndexOf(h1[p].children, self))]]

\* The callback of simplify.
SimplifyBranch(st, branch) ==
  IF Len(st.h[branch].children) = 1
  THEN LET child == st.h[branch].children[1]
           newid == IF st.h[child].id = <<>> THEN st.h[branch].id
                    ELSE st.h[branch].id \o <<"+">> \o st.h[child].id
       IN  Excise([st EXCEPT !.h[child].id = newid], branch)
  ELSE st

\* The callback of consolidate with a threshold of 0.001.
ConsolidateBelowDouble(st, branch) ==
  IF IsRoot(st.h, branch) \/ st.h[branch].length >= 2 * NearZero THEN st
  ELSE LET p == st.h[branch].parent
           newid == IF st.h[p].id = <<>> THEN st.h[branch].id
                    ELSE st.h[p].id \o <<"+">> \o st.h[branch].id
       IN  Excise([st EXCEPT !.h[p].id = newid], branch)

\* The callback of consolidate.
ConsolidateBranch(st, branch) ==
  IF IsRoot(st.h, branch) \/ st.h[branch].length >= NearZero THEN st
  ELSE LET p == st.h[branch].parent
           newid == IF st.h[p].id = <<>> THEN st.h[branch].id
                    ELSE st.h[p].id \o <<"+">> \o st.h[branch].id
       IN  Excise([st EXCEPT !.h[p].id = newid], branch)

\* A callback that notes the branch it is given and changes nothing.
Visit(st, b) == [st EXCEPT !.visited = Append(@, b)]

Callback(tag, st, b) ==
  CASE tag = "depth"       -> SetDepth(st, b)
    [] tag = "visit"       -> Visit(st, b)
    [] tag = "height"      -> SetHeight(st, b)
    [] tag = "simplify"    -> SimplifyBranch(st, b)
    [] tag = "consolidate" -> ConsolidateBranch(st, b)
    [] OTHER               -> st

\* eachChild is Array.prototype.forEach: the number of indices to visit is
\* fixed when the loop starts, the element at each index is read when the
\* loop reaches it, and an index past the current end is not visited.
RECURSIVE EachAfter(_, _, _)
RECURSIVE EachAfterFrom(_, _, _, _, _)
EachAfter(st, b, tag) ==
  LET s1 == EachAfterFrom(st, b, 0, Len(st.h[b].children), tag)
  IN  IF s1.threw THEN s1 ELSE Callback(tag, s1, b)

EachAfterFrom(st, b, k, n, tag) ==
  IF st.threw \/ k >= n \/ k >= Len(st.h[b].children) THEN st
  ELSE EachAfterFrom(EachAfter(st, st.h[b].children[k + 1], tag), b, k + 1, n, tag)

RECURSIVE EachBefore(_, _, _)
RECURSIVE EachBeforeFrom(_, _, _, _, _)
EachBefore(st, b, tag) ==
  LET s1 == Callback(tag, st, b)
  IN  IF s1.threw THEN s1
      ELSE EachBeforeFrom(s1, b, 0, Len(s1.h[b].children), tag)

EachBeforeFrom(st, b, k, n, tag) ==
  IF st.threw \/ k >= n \/ k >= Len(st.h[b].children) THEN st
  ELSE EachBeforeFrom(EachBefore(st, st.h[b].children[k + 1], tag), b, k + 1, n, tag)

\* each(callback) with the loop over each level run depth first.
EachDepthFirst(st, self, tag) == EachBefore(st, self, tag)

\* each(callback): the branches of current from index k on are given to the
\* callback in turn and their children are pushed to next, which is the
\* next current.
RECURSIVE EachLevel(_, _, _, _, _)
EachLevel(st, current, k, next, tag) ==
  IF st.threw THEN st
  ELSE IF k > Len(current)
  THEN (IF next = <<>> THEN st ELSE EachLevel(st, next, 1, <<>>, tag))
  ELSE LET s1 == Callback(tag, st, current[k])
       IN  EachLevel(s1, current, k + 1, next \o s1.h[current[k]].children, tag)

Each(st, self, tag) == EachLevel(st, <<self>>, 1, <<>>, tag)

\* fixDistances(): the walk it ends in (its heap is the result).
FixDistances(st, self) ==
  IF st.threw THEN st
  ELSE LET r  == GetRoot(st.h, self)
           s0 == [st EXCEPT !.h[r].depth = 0, !.maxdepth = 0]
       IN  EachAfter(EachBefore(s0, self, "depth"), self, "height")

\* simplify()
Simplify(st, self) == FixDistances(EachAfter(st, self, "simplify"), self)

\* consolidate()
Consolidate(st, self) == FixDistances(EachAfter(st, self, "consolidate"), self)

\* invert()
Invert(st, self) ==
  IF st.threw THEN st
  ELSE LET h == st.h
           oldParent == h[self].parent
       IN  IF oldParent = Null THEN [st EXCEPT !.threw = TRUE]
           ELSE [st EXCEPT !.h =
                   [h EXCEPT ![oldParent].length = h[self].length,
                             ![oldParent].parent = self,
                             ![oldParent].children = Splice1(@, IndexOf(@, self)),
                             ![self].length = h[oldParent].length,
                             ![self].parent = h[oldParent].parent,
                             ![self].children = Append(@, oldParent)]]

\* reroot(): the array toInvert, from the receiver upwards, the root left out.
RECURSIVE ToInvert(_, _)
ToInvert(h, current) ==
  IF IsRoot(h, current) THEN <<>>
  ELSE <<current>> \o ToInvert(h, h[current].parent)

\* reroot() without toInvert.reverse().
NotReversed(arr) == arr

Reverse(arr) == [i \in 1..Len(arr) |-> arr[Len(arr) + 1 - i]]

RECURSIVE InvertEach(_, _, _)
InvertEach(st, arr, k) ==
  IF k > Len(arr) THEN st ELSE InvertEach(Invert(st, arr[k]), arr, k + 1)

\* reroot()
Reroot(st, self) ==
  FixDistances(InvertEach(st, Reverse(ToInvert(st.h, self)), 1), self)

\* isolate() without its setParent(null).
IsolateKeepsParent(st, self) ==
  IF st.threw THEN st
  ELSE LET p == st.h[self].parent
       IN  IF p = Null THEN [st EXCEPT !.threw = TRUE]
           ELSE [st EXCEPT !.h[p].children = Splice1(@, IndexOf(@, self))]

\* isolate(). On a root, this.parent.children is a TypeError.
Isolate(st, self) ==
  IF st.threw THEN st
  ELSE LET p == st.h[self].parent
       IN  IF p = Null THEN [st EXCEPT !.threw = TRUE]
           ELSE [st EXCEPT !.h[p].children = Splice1(@, IndexOf(@, self)),
                           !.h[self].parent = Null]

\* remove(pruneAncestors): isolate(), then this.parent?.removeIfNoChildren()
\* when pruneAncestors is set. The optional call is made on the parent the
\* branch has after isolate, which is null.
RECURSIVE RemoveIfNoChildren(_, _, _)
Remove(st, self, pruneAncestors) ==
  LET s1 == Isolate(st, self)
  IN  IF s1.threw \/ ~pruneAncestors \/ s1.h[self].parent = Null THEN s1
      ELSE RemoveIfNoChildren(s1, s1.h[self].parent, FALSE)

\* removeIfNoChildren(nonrecursive): this.remove(), then
\* this.parent.removeIfNoChildren(), a TypeError when this.parent is null.
RemoveIfNoChildren(st, self, nonrecursive) ==
  IF st.threw \/ Len(st.h[self].children) # 0 THEN st
  ELSE LET s1 == Remove(st, self, FALSE)
       IN  IF s1.threw \/ nonrecursive THEN s1
           ELSE IF s1.h[self].parent = Null THEN [s1 EXCEPT !.threw = TRUE]
           ELSE RemoveIfNoChildren(s1, s1.h[self].parent, FALSE)

\* replace(replacement). On a root, this.parent.children is a TypeError.
Replace(st, self, replacement) ==
  IF st.threw THEN st
  ELSE LET p == st.h[self].parent
       IN  IF p = Null THEN [st EXCEPT !.threw = TRUE]
           ELSE [st EXCEPT !.h[p].children =
                   Splice1With(@, IndexOf(@, self), replacement)]

(* -------------------------------------------------------------- queries *)
\* hasDescendant(descendant) for a Branch argument: getDescendants() is
\* called without includeSelf.
HasDescendant(h, self, descendant) ==
  Includes(GetDescendants(h, self, FALSE), descendant)

\* getMRCA(cousin): the loop, with mrca the branch it has climbed to.
RECURSIVE GetMRCAFrom(_, _, _)
GetMRCAFrom(h, mrca, cousin) ==
  IF HasDescendant(h, mrca, cousin) THEN mrca
  ELSE IF IsRoot(h, mrca) THEN Throw
  ELSE GetMRCAFrom(h, h[mrca].parent, cousin)

GetMRCA(h, self, cousin) == GetMRCAFrom(h, self, cousin)

\* depthOf(descendant) for a Branch argument; climbing past the root reads
\* .length of null, a TypeError.
RECURSIVE DepthOfFrom(_, _, _, _)
DepthOfFrom(h, self, current, distance) ==
  IF current = self THEN distance
  ELSE IF current = Null THEN Throw
  ELSE DepthOfFrom(h, self, h[current].parent, distance + h[current].length)

DepthOf(h, self, descendant) == DepthOfFrom(h, self, descendant, 0)

\* distanceBetween(descendantA, descendantB)
DistanceBetween(h, descendantA, descendantB) ==
  LET mrca == GetMRCA(h, descendantA, descendantB)
  IN  IF mrca = Throw THEN Throw
      ELSE LET da == DepthOf(h, mrca, descendantA)
               db == DepthOf(h, mrca, descendantB)
           IN  IF da = Throw \/ db = Throw THEN Throw ELSE da + db

\* distanceTo(cousin)
DistanceTo(h, self, cousin) ==
  LET mrca == GetMRCA(h, self, cousin)
  IN  IF mrca = Throw THEN Throw
      ELSE LET da == DepthOf(h, mrca, self)
               db == DepthOf(h, mrca, cousin)
           IN  IF da = Throw \/ db = Throw THEN Throw ELSE da + db

\* path(target): the branches from current up to mrca, current included.
RECURSIVE PathUp(_, _, _)
PathUp(h, current, mrca) ==
  IF current = mrca THEN <<current>>
  ELSE <<current>> \o PathUp(h, h[current].parent, mrca)

\* path(target): the branches spliced in at index k, which end up in the
\* order from below mrca down to target.
RECURSIVE PathDown(_, _, _)
PathDown(h, current, mrca) ==
  IF current = mrca THEN <<>>
  ELSE PathDown(h, h[current].parent, mrca) \o <<current>>

\* path(target); Throw when getMRCA throws.
Path(h, self, target) ==
  IF GetMRCA(h, self, target) = Throw THEN <<Throw>>
  ELSE PathUp(h, self, GetMRCA(h, self, target)) \o
       PathDown(h, target, GetMRCA(h, self, target))

\* toMatrix() with the mirrored entry left unset.
ToMatrixLowerOnly(h, self) ==
  LET leafs == GetLeaves(h, self)
      n == Len(leafs)
      matrix == [i \in 1..n |-> [j \in 1..n |->
                   IF j < i THEN DistanceTo(h, leafs[i], leafs[j]) ELSE 0]]
  IN  [matrix |-> matrix,
       ids |-> [i \in 1..n |-> h[leafs[i]].id],
       threw |-> \E i, j \in 1..n : matrix[i][j] = Throw]

\* toMatrix(): row i holds leafs[i].distanceTo(leafs[j]) for j < i, which is
\* also stored at [j][i]; it throws when a distanceTo throws.
ToMatrix(h, self) ==
  LET leafs == GetLeaves(h, self)
      n == Len(leafs)
      matrix == [i \in 1..n |-> [j \in 1..n |->
                   IF i = j THEN 0
                   ELSE IF j < i THEN DistanceTo(h, leafs[i], leafs[j])
                   ELSE DistanceTo(h, leafs[j], leafs[i])]]
  IN  [matrix |-> matrix,
       ids |-> [i \in 1..n |-> h[leafs[i]].id],
       threw |-> \E i, j \in 1..n : matrix[i][j] = Throw]

(* --------------------------------------------------------------- Newick *)
Digit(d) ==
  CASE d = 0 -> "0" [] d = 1 -> "1" [] d = 2 -> "2" [] d = 3 -> "3" [] d = 4 -> "4"
    [] d = 5 -> "5" [] d = 6 -> "6" [] d = 7 -> "7" [] d = 8 -> "8" [] d = 9 -> "9"

IsDigit(c) == c \in {"0", "1", "2", "3", "4", "5", "6", "7", "8", "9"}

DigitValue(c) ==
  CASE c = "0" -> 0 [] c = "1" -> 1 [] c = "2" -> 2 [] c = "3" -> 3 [] c = "4" -> 4
    [] c = "5" -> 5 [] c = "6" -> 6 [] c = "7" -> 7 [] c = "8" -> 8 [] c = "9" -> 9

\* The decimal digits of a natural number.
RECURSIVE IntegerDigits(_)
IntegerDigits(n) ==
  IF n < 10 THEN <<Digit(n)>> ELSE IntegerDigits(n \div 10) \o <<Digit(n % 10)>>

\* The digits after the decimal point of f/10000, the trailing zeros dropped.
RECURSIVE FractionDigits(_, _)
FractionDigits(f, scale) ==
  IF f = 0 THEN <<>>
  ELSE <<Digit(f \div scale)>> \o FractionDigits(f % scale, scale \div 10)

\* String(num) for a positive number of 1/10000 units below 1e21: plain
\* decimal notation, the shortest that reads back as num.
String(num) ==
  IntegerDigits(num \div 10000) \o
  (IF num % 10000 = 0 THEN <<>> ELSE <<".">> \o FractionDigits(num % 10000, 1000))

\* numberToString(num). For 0.000001 <= num < 1e21 the string of num has no
\* exponent, both searches for one give NaN and String(num) is returned.
NumberToString(num) == String(num)

\* The result of parseFloat on a text that does not start with a number.
NaN == -2

RECURSIVE ReadDigits(_, _, _)
ReadDigits(tok, k, acc) ==
  IF k <= Len(tok) /\ IsDigit(tok[k])
  THEN ReadDigits(tok, k + 1, [val |-> 10 * acc.val + DigitValue(tok[k]),
                               digits |-> acc.digits + 1])
  ELSE [val |-> acc.val, digits |-> acc.digits, next |-> k]

Power10(n) == CASE n <= 0 -> 1 [] n = 1 -> 10 [] n = 2 -> 100 [] n = 3 -> 1000 [] OTHER -> 10000

\* parseFloat(token) for unsigned decimal text with at most four digits after
\* the point, in 1/10000 units; what follows the number is ignored.
ParseFloat(tok) ==
  LET ip == ReadDigits(tok, 1, [val |-> 0, digits |-> 0])
      fp == IF ip.next <= Len(tok) /\ tok[ip.next] = "."
            THEN ReadDigits(tok, ip.next + 1, [val |-> 0, digits |-> 0])
            ELSE [val |-> 0, digits |-> 0, next |-> ip.next]
  IN  IF ip.digits = 0 /\ fp.digits = 0 THEN NaN
      ELSE ip.val * 10000 + fp.val * Power10(4 - fp.digits)

\* toNewick(nonterminus)
RECURSIVE ToNewick(_, _, _)
RECURSIVE JoinNewick(_, _, _)
ToNewick(h, self, nonterminus) ==
  (IF IsLeaf(h, self) THEN <<>>
   ELSE <<"(">> \o JoinNewick(h, h[self].children, 1) \o <<")">>) \o
  h[self].id \o
  (IF h[self].length # 0 THEN <<":">> \o NumberToString(h[self].length) ELSE <<>>) \o
  (IF nonterminus THEN <<>> ELSE <<";">>)

\* children.map(child => child.toNewick(true)).join(",")
JoinNewick(h, arr, k) ==
  IF k > Len(arr) THEN <<>>
  ELSE ToNewick(h, arr[k], TRUE) \o
       (IF k < Len(arr) THEN <<",">> ELSE <<>>) \o JoinNewick(h, arr, k + 1)

IsMarker(c) == c \in {";", "(", ")", ",", ":"}

IsSpace(c) == c = " "

\* The split without the white space of its pattern.
TrimRightNothing(str) == str

RECURSIVE TrimRight(_)
TrimRight(str) ==
  IF str # <<>> /\ IsSpace(str[Len(str)]) THEN TrimRight(SubSeq(str, 1, Len(str) - 1))
  ELSE str

\* newick.split(/\s*(;|\(|\)|,|:)\s*/): the texts between the markers and
\* the markers themselves, in turn; cur is the text read since the last
\* marker and skip tells that white space after a marker is being passed.
RECURSIVE SplitFrom(_, _, _, _)
SplitFrom(str, k, cur, skip) ==
  IF k > Len(str) THEN <<cur>>
  ELSE IF IsMarker(str[k])
  THEN <<TrimRight(cur), <<str[k]>>>> \o SplitFrom(str, k + 1, <<>>, TRUE)
  ELSE IF skip /\ IsSpace(str[k]) THEN SplitFrom(str, k + 1, cur, TRUE)
  ELSE SplitFrom(str, k + 1, Append(cur, str[k]), FALSE)

Split(str) == SplitFrom(str, 1, <<>>, FALSE)

\* The number of Branch objects parseNewick constructs for the tokens.
RECURSIVE CountBranches(_, _)
CountBranches(tokens, k) ==
  IF k > Len(tokens) THEN 1
  ELSE (IF tokens[k] \in {<<"(">>, <<",">>} THEN 1 ELSE 0) + CountBranches(tokens, k + 1)

\* parseNewick: the loop over the tokens from index t on. ps holds the heap
\* of the branches made so far, their number, the ancestors stack, the
\* current branch tree (Null once pop has returned undefined) and whether a
\* TypeError was raised.
RECURSIVE ParseTokens(_, _, _)
ParseTokens(tokens, t, ps) ==
  IF ps.threw \/ t > Len(tokens) THEN ps
  ELSE
    LET token == tokens[t]
        x == IF t = 1 THEN <<"undefined">> ELSE tokens[t - 1]
        c == ps.used + 1
        top == IF ps.ancestors = <<>> THEN Null ELSE ps.ancestors[Len(ps.ancestors)]
        fail == [ps EXCEPT !.threw = TRUE]
        step ==
          CASE token = <<"(">> ->
                 IF ps.tree = Null THEN fail
                 ELSE [ps EXCEPT !.h = AddChildNew(ps.h, ps.tree, c, <<>>, 0),
                                 !.used = c,
                                 !.ancestors = Append(@, ps.tree),
                                 !.tree = c]
            [] token = <<",">> ->
                 IF top = Null THEN fail
                 ELSE [ps EXCEPT !.h = AddChildNew(ps.h, top, c, <<>>, 0),
                                 !.used = c,
                                 !.tree = c]
            [] token = <<")">> ->
                 [ps EXCEPT !.tree = top,
                            !.ancestors = IF @ = <<>> THEN @
                                          ELSE SubSeq(@, 1, Len(@) - 1)]
            [] token = <<":">> -> ps
            [] OTHER ->
                 IF x \in {<<")">>, <<"(">>, <<",">>}
                 THEN IF ps.tree = Null THEN fail
                      ELSE [ps EXCEPT !.h[ps.tree].id = token]
                 ELSE IF x = <<":">>
                 THEN IF ps.tree = Null THEN fail
                      ELSE [ps EXCEPT !.h[ps.tree].length = ParseFloat(token)]
                 ELSE ps
    IN  ParseTokens(tokens, t + 1, step)

\* parseNewick(newick): the heap of the branches it made and the branch it
\* returns, after fixDistances.
ParseReturn(ps) ==
  IF ps.threw \/ ps.tree = Null THEN [h |-> ps.h, tree |-> Null, threw |-> TRUE]
  ELSE [h |-> FixDistances(Walk(ps.h), ps.tree).h, tree |-> ps.tree,
        threw |-> FALSE]

ParseFrom(tokens) ==
  ParseReturn(ParseTokens(tokens, 1,
    [h |-> [b \in 1..CountBranches(tokens, 1) |-> Branch(<<>>, 0, Null)],
     used |-> 1, ancestors |-> <<>>, tree |-> 1, threw |-> FALSE]))

ParseNewick(newick) == ParseFrom(Split(newick))

\* toObject()
RECURSIVE ToObject(_, _)
ToObject(h, self) ==
  [id |-> h[self].id, length |-> h[self].length,
   children |-> [i \in DOMAIN h[self].children |-> ToObject(h, h[self].children[i])]]

(* ----------------------------------------------------- neighbor joining *)
\* The numbers of parseMatrix (distances, row sums, lengths) are counted in
\* 1/Unit, so that the halves and the quotients by 2 * cN - 4 it takes of
\* the whole-numbered distances given to it stay whole. Rows and columns
\* are numbered from 0 as in the source; the sorted rows are sequences.
Unit == 96

\* The -1 written into the rows and columns of a joined index.
MinusOne == 0 - Unit

\* The half left whole.
Whole(x) == x

Half(x) == x \div 2

\* The indices i of toSort that are kept, in the order of the (stable) sort
\* by toSort[i]: the least first, the lower index first among equals.
RECURSIVE SortIndices(_, _)
SortIndices(toSort, kept) ==
  IF kept = {} THEN <<>>
  ELSE LET first == CHOOSE a \in kept :
                      \A b \in kept : toSort[a] < toSort[b] \/
                                      (toSort[a] = toSort[b] /\ a <= b)
       IN  <<first>> \o SortIndices(toSort, kept \ {first})

\* sortWithIndices(toSort, skip): the sorted values and their indices.
SortWithIndices(toSort, skip) ==
  LET indexCopy == SortIndices(toSort, {i \in DOMAIN toSort :
                                          toSort[i] # MinusOne /\ i # skip})
  IN  [values |-> [j \in DOMAIN indexCopy |-> toSort[indexCopy[j]]],
       sortIndices |-> indexCopy]

RECURSIVE SumFrom(_, _)
SumFrom(row, j) ==
  IF j \notin DOMAIN row THEN 0 ELSE row[j] + SumFrom(row, j + 1)

\* sumRows(a)
SumRows(a) == [i \in DOMAIN a |-> SumFrom(a[i], 0)]

\* The q of search for row r and column c2.
Q(t, r, c2) == t.D[r][c2] * (t.cN - 2) - t.rowSums[r] - t.rowSums[c2]

\* search: a candidate replaces the least found so far when its q is less;
\* m.found is false while qMin is Infinity.
Better(t, m, r, c2) ==
  IF ~m.found \/ Q(t, r, c2) < m.qMin
  THEN [found |-> TRUE, qMin |-> Q(t, r, c2), minI |-> r, minJ |-> c2]
  ELSE m

\* search: the initial guess for qMin, from row r on.
RECURSIVE SearchGuess(_, _, _)
SearchGuess(t, r, m) ==
  IF r >= t.N THEN m
  ELSE IF r \in t.removedIndices \/ t.I[r] = <<>> \/ t.I[r][1] \in t.removedIndices
  THEN SearchGuess(t, r + 1, m)
  ELSE SearchGuess(t, r + 1, Better(t, m, r, t.I[r][1]))

\* search: the scan of the sorted row r from position c on (c counts from 1
\* here), which ends at the first column whose bound exceeds qMin.
RECURSIVE SearchRow(_, _, _, _)
SearchRow(t, r, c, m) ==
  IF c > Len(t.S[r]) THEN m
  ELSE IF t.I[r][c] \in t.removedIndices THEN SearchRow(t, r, c + 1, m)
  ELSE IF m.found /\ t.S[r][c] * (t.cN - 2) - t.rowSums[r] - t.rowSumMax > m.qMin
  THEN m
  ELSE SearchRow(t, r, c + 1, Better(t, m, r, t.I[r][c]))

RECURSIVE SearchRows(_, _, _)
SearchRows(t, r, m) ==
  IF r >= t.N THEN m
  ELSE IF r \in t.removedIndices THEN SearchRows(t, r + 1, m)
  ELSE SearchRows(t, r + 1, SearchRow(t, r, 1, m))

\* search(t): minI and minJ, both -1 when no pair was found.
Search(t) ==
  SearchRows(t, 0, SearchGuess(t, 0,
    [found |-> FALSE, qMin |-> 0, minI |-> -1, minJ |-> -1]))

RECURSIVE MaxFrom(_, _, _, _)
\* The running maximum newMax of recalculateDistanceMatrix over the rows
\* that are not removed, from row i on.
MaxFrom(rowSums, removed, i, newMax) ==
  IF i \notin DOMAIN rowSums THEN newMax
  ELSE IF i \in removed \/ rowSums[i] <= newMax
  THEN MaxFrom(rowSums, removed, i + 1, newMax)
  ELSE MaxFrom(rowSums, removed, i + 1, rowSums[i])

\* recalculateDistanceMatrix with rowChange[i] = -0.5 * aux, the distance
\* between the two joined rows left out.
RecalculateWithoutJoinedDistance(t, joinedIndex1, joinedIndex2) ==
  LET D == t.D
      removedIndices == t.removedIndices \cup {joinedIndex1}
      aux2 == D[joinedIndex1][joinedIndex2]
      newRow == [i \in DOMAIN D |->
                   Half(D[joinedIndex1][i] + D[joinedIndex2][i] - aux2)]
      rowChange == [i \in DOMAIN D |->
                      0 - Half(D[joinedIndex1][i] + D[joinedIndex2][i])]
      sum == SumFrom([i \in DOMAIN D |->
                        IF i \in removedIndices THEN 0 ELSE newRow[i]], 0)
      changed == [i \in DOMAIN D |->
                    IF i \in removedIndices THEN t.rowSums[i]
                    ELSE t.rowSums[i] + rowChange[i]]
      newMax == MaxFrom(changed, removedIndices, 0, 0)
  IN  [t EXCEPT
         !.removedIndices = removedIndices,
         !.D = [a \in DOMAIN D |-> [b \in DOMAIN D |->
                  IF a = joinedIndex1 \/ b = joinedIndex1 THEN MinusOne
                  ELSE IF a = joinedIndex2 /\ b \notin removedIndices THEN newRow[b]
                  ELSE IF b = joinedIndex2 /\ a \notin removedIndices THEN newRow[a]
                  ELSE D[a][b]]],
         !.rowSums = [changed EXCEPT ![joinedIndex1] = 0, ![joinedIndex2] = sum],
         !.rowSumMax = IF sum > newMax THEN sum ELSE newMax,
         !.indicesLeft = t.indicesLeft \ {joinedIndex1}]

\* recalculateDistanceMatrix(t, joinedIndex1, joinedIndex2)
RecalculateDistanceMatrix(t, joinedIndex1, joinedIndex2) ==
  LET D == t.D
      removedIndices == t.removedIndices \cup {joinedIndex1}
      aux2 == D[joinedIndex1][joinedIndex2]
      newRow == [i \in DOMAIN D |->
                   Half(D[joinedIndex1][i] + D[joinedIndex2][i] - aux2)]
      rowChange == [i \in DOMAIN D |->
                      0 - Half(D[joinedIndex1][i] + D[joinedIndex2][i] + aux2)]
      sum == SumFrom([i \in DOMAIN D |->
                        IF i \in removedIndices THEN 0 ELSE newRow[i]], 0)
      changed == [i \in DOMAIN D |->
                    IF i \in removedIndices THEN t.rowSums[i]
                    ELSE t.rowSums[i] + rowChange[i]]
      newMax == MaxFrom(changed, removedIndices, 0, 0)
  IN  [t EXCEPT
         !.removedIndices = removedIndices,
         !.D = [a \in DOMAIN D |-> [b \in DOMAIN D |->
                  IF a = joinedIndex1 \/ b = joinedIndex1 THEN MinusOne
                  ELSE IF a = joinedIndex2 /\ b \notin removedIndices THEN newRow[b]
                  ELSE IF b = joinedIndex2 /\ a \notin removedIndices THEN newRow[a]
                  ELSE D[a][b]]],
         !.rowSums = [changed EXCEPT ![joinedIndex1] = 0, ![joinedIndex2] = sum],
         !.rowSumMax = IF sum > newMax THEN sum ELSE newMax,
         !.indicesLeft = t.indicesLeft \ {joinedIndex1}]

\* A JavaScript number used as an id, which is not the string of its digits.
NumberValue(i) == <<"number">> \o IntegerDigits(i)

\* value || "" as the constructor takes the id.
OrEmpty(value) == IF value = NumberValue(0) THEN <<>> ELSE value

\* setUpNode(labelIndex, distance): the heap after it, the node, and whether
\* the node is a new Branch, which then is the object number next.
SetUpNode(h, t, next, labelIndex, distance) ==
  IF labelIndex < t.N
  THEN [h |-> [h EXCEPT ![next] = Branch(OrEmpty(t.labels[labelIndex]), distance, Null)],
        node |-> next, made |-> 1]
  ELSE [h |-> [h EXCEPT ![t.labelToNode[labelIndex]].length = distance],
        node |-> t.labelToNode[labelIndex], made |-> 0]

\* fixParenthood() that stops at the children of self.
FixParenthoodOfChildren(h, self) ==
  [b \in DOMAIN h |-> IF Includes(h[self].children, b)
                       THEN [h[b] EXCEPT !.parent = self] ELSE h[b]]

\* fixParenthood() from child k of self on.
RECURSIVE FixParenthood(_, _)
RECURSIVE FixParenthoodFrom(_, _, _)
FixParenthood(h, self) == FixParenthoodFrom(h, self, 1)

FixParenthoodFrom(h, self, k) ==
  IF k > Len(h[self].children) THEN h
  ELSE LET child == h[self].children[k]
           h1 == [h EXCEPT ![child].parent = self]
       IN  FixParenthoodFrom(IF Len(h1[child].children) > 0
                             THEN FixParenthood(h1, child) ELSE h1,
                             self, k + 1)

\* parseMatrix(matrix, labels) up to its main loop: the object that.
SetUp(matrix, labels) ==
  LET N == Len(matrix)
      D == [i \in 0..N - 1 |-> [j \in 0..N - 1 |-> matrix[i + 1][j + 1]]]
      rowSums == SumRows(D)
  IN  [N |-> N, cN |-> N, D |-> D, labels |-> labels,
       currIndexToLabel |-> [i \in 0..N - 1 |-> i],
       labelToNode |-> [l \in 0..2 * N - 1 |-> Null],
       nextIndex |-> N,
       I |-> [i \in 0..N - 1 |-> SortWithIndices(D[i], i).sortIndices],
       S |-> [i \in 0..N - 1 |-> SortWithIndices(D[i], i).values],
       removedIndices |-> {},
       indicesLeft |-> 0..N - 1,
       rowSums |-> rowSums,
       rowSumMax |-> MaxFrom(rowSums, {}, 0, 0)]

\* One pass of the main loop of parseMatrix for the pair search returned:
\* the heap, the number of Branch objects and the object that after it.
JoinPair(h, made, t, minI, minJ) ==
  LET d1 == Half(t.D[minI][minJ]) +
            (t.rowSums[minI] - t.rowSums[minJ]) \div (2 * t.cN - 4)
      d2 == t.D[minI][minJ] - d1
      l1 == t.currIndexToLabel[minI]
      l2 == t.currIndexToLabel[minJ]
      n1 == SetUpNode(h, t, made + 1, l1, d1)
      n2 == SetUpNode(n1.h, t, made + n1.made + 1, l2, d2)
      node3 == made + n1.made + n2.made + 1
      t2 == RecalculateDistanceMatrix(t, minI, minJ)
      sorted == SortWithIndices(t2.D[minJ], minJ)
  IN  [h |-> [n2.h EXCEPT ![node3] =
                [Branch(<<>>, 0, Null) EXCEPT !.children = <<n1.node, n2.node>>]],
       made |-> node3,
       node |-> node3,
       t |-> [t2 EXCEPT
                !.S = [@ EXCEPT ![minJ] = sorted.values, ![minI] = <<>>],
                !.I = [@ EXCEPT ![minJ] = sorted.sortIndices, ![minI] = <<>>],
                !.cN = @ - 1,
                !.labelToNode = [[[@ EXCEPT ![l1] = n1.node]
                                     EXCEPT ![l2] = n2.node]
                                     EXCEPT ![t.nextIndex] = node3],
                !.currIndexToLabel = [@ EXCEPT ![minI] = -1, ![minJ] = t.nextIndex],
                !.nextIndex = @ + 1]]

Least(S) == CHOOSE m \in S : \A n \in S : m <= n

\* The end of parseMatrix: the two indices left are joined under the root.
JoinLeft(h, made, t) ==
  LET minI == Least(t.indicesLeft)
      minJ == Least(t.indicesLeft \ {minI})
      l1 == t.currIndexToLabel[minI]
      l2 == t.currIndexToLabel[minJ]
      d1 == Half(t.D[minI][minJ])
      n1 == SetUpNode(h, t, made + 1, l1, d1)
      n2 == SetUpNode(n1.h, t, made + n1.made + 1, l2, d1)
      tree == made + n1.made + n2.made + 1
      h3 == [n2.h EXCEPT ![tree] =
               [Branch(<<>>, 0, Null) EXCEPT !.children = <<n1.node, n2.node>>]]
  IN  [h |-> FixDistances(Walk(FixParenthood(h3, tree)), tree).h,
       made |-> tree,
       node |-> tree,
       t |-> [t EXCEPT !.labelToNode = [[@ EXCEPT ![l1] = n1.node]
                                           EXCEPT ![l2] = n2.node]]]

(* ------------------------------------------------------------- the tree *)
\* Branches of the trees that are mutated and queried are labelled by
\* creation order.
Name(k) == <<"n", Digit(k % 10)>>

Snapshot == [heap |-> heap, root |-> root]

NoCall ==
  [op |-> "none", self |-> Null, arg |-> Null, ret |-> Null, threw |-> FALSE,
   prev |-> "none"]

\* The record of a call; prev is the operation that was called before it.
Call(op, self, arg, ret, threw) ==
  [op |-> op, self |-> self, arg |-> arg, ret |-> ret, threw |-> threw,
   prev |-> last.op]

\* The branches the parser may extend: the current branch and its ancestors,
\* which are the last children from the root down.
RECURSIVE RightSpine(_, _)
RightSpine(h, b) ==
  {b} \cup (IF IsLeaf(h, b) THEN {}
            ELSE RightSpine(h, h[b].children[Len(h[b].children)]))

Reachable(h, b) ==
  LET d == GetDescendants(h, b, TRUE) IN {d[i] : i \in DOMAIN d}

LeafSet(h, b) ==
  LET l == GetLeaves(h, b) IN {l[i] : i \in DOMAIN l}

\* Lengths given to constructed branches: zero, 0.0004 (below the
\* threshold of consolidate) and 0.0008 (above it).
Lengths == {0, 4, 8}

\* The state after new Branch({id, length}).
InitTree(ids, lens) ==
  /\ \E len \in lens, id \in ids :
       heap = [b \in Nodes |-> IF b = 1 THEN Branch(id, len, Null)
                                ELSE Branch(<<>>, 0, Null)]
  /\ used = 1
  /\ root = 1
  /\ ops = 0
  /\ fixes = 0
  /\ last = NoCall
  /\ before = [heap |-> heap, root |-> root]
  /\ text = <<>>
  /\ parsed = <<>>
  /\ result = <<>>

\* Construction of the tree, one addChild at a time in the order a parser
\* meets the branches.
GrowTree(ids, lens, limit) ==
  /\ last.op = "none"
  /\ used < limit
  /\ \E p \in RightSpine(heap, root), len \in lens, id \in ids :
       heap' = AddChildNew(heap, p, used + 1, id, len)
  /\ used' = used + 1
  /\ UNCHANGED <<root, ops, fixes, last, before, text, parsed, result>>

Init == InitTree({Name(1)}, Lengths)

Grow == GrowTree({Name(used + 1)}, Lengths, MaxNodes)

\* root.fixDistances()
CallFixDistances ==
  /\ fixes < MaxFixes
  /\ LET st == FixDistances(Walk(heap), root)
     IN  /\ heap' = st.h
         /\ last' = Call("fixDistances", root, Null, root, st.threw)
  /\ before' = Snapshot
  /\ fixes' = fixes + 1
  /\ UNCHANGED <<used, root, ops, text, parsed, result>>

\* A mutation of the tree: what it does to the heap, and the branch the
\* caller holds as the tree afterwards (the root is unchanged by a call that
\* throws).
Mutate(op, self, st, newroot) ==
  /\ heap' = st.h
  /\ root' = IF st.threw THEN root ELSE newroot
  /\ last' = Call(op, self, Null, IF st.threw THEN Throw ELSE newroot, st.threw)
  /\ before' = Snapshot
  /\ ops' = ops + 1
  /\ UNCHANGED <<used, fixes, text, parsed, result>>

\* p.addChild({id, length}) on a built tree.
CallAddChild(p, lens) ==
  /\ used < MaxNodes
  /\ \E len \in lens :
       /\ heap' = AddChildNew(heap, p, used + 1, Name(used + 1), len)
       /\ last' = Call("addChild", p, Null, used + 1, FALSE)
  /\ used' = used + 1
  /\ before' = Snapshot
  /\ ops' = ops + 1
  /\ UNCHANGED <<root, fixes, text, parsed, result>>

\* x.excise(); the caller keeps its root.
CallExcise(x) == Mutate("excise", x, Excise(Walk(heap), x), root)

\* x.isolate() returns x, which the caller takes as its tree.
CallIsolate(x) == Mutate("isolate", x, Isolate(Walk(heap), x), x)

\* x.remove(pruneAncestors) returns the root found before the removal; the
\* record of the call keeps the flag as its argument, 1 for true.
CallRemove(x) ==
  \E pruneAncestors \in BOOLEAN :
   \E st \in {Remove(Walk(heap), x, pruneAncestors)} :
    /\ heap' = st.h
    /\ root' = IF st.threw THEN root ELSE GetRoot(heap, x)
    /\ last' = Call("remove", x, IF pruneAncestors THEN 1 ELSE 0,
                    IF st.threw THEN Throw ELSE GetRoot(heap, x), st.threw)
    /\ before' = Snapshot
    /\ ops' = ops + 1
    /\ UNCHANGED <<used, fixes, text, parsed, result>>

\* x.reroot() returns x, the new root.
CallReroot(x) == Mutate("reroot", x, Reroot(Walk(heap), x), x)

\* root.simplify()
CallSimplify == Mutate("simplify", root, Simplify(Walk(heap), root), root)

\* root.consolidate()
CallConsolidate == Mutate("consolidate", root, Consolidate(Walk(heap), root), root)

\* One call on a built tree, any branch of it the receiver, followed by the
\* caller's fixDistances calls.
Next ==
  \/ Grow
  \/ CallFixDistances
  \/ ops = 0 /\ fixes = 0 /\ \E x \in Reachable(heap, root) : CallAddChild(x, Lengths)
  \/ ops = 0 /\ fixes = 0 /\ \E x \in Reachable(heap, root) : CallExcise(x)
  \/ ops = 0 /\ fixes = 0 /\ \E x \in Reachable(heap, root) : CallIsolate(x)
  \/ ops = 0 /\ fixes = 0 /\ \E x \in Reachable(heap, root) : CallRemove(x)
  \/ ops = 0 /\ fixes = 0 /\ \E x \in Reachable(heap, root) : CallReroot(x)
  \/ ops = 0 /\ fixes = 0 /\ CallSimplify
  \/ ops = 0 /\ fixes = 0 /\ CallConsolidate

Spec == Init /\ [][Next]_vars

\* Sequences of the mutations that keep a tree a tree: a new child anywhere,
\* and excise, isolate, remove and reroot on a branch other than the root;
\* then the caller's fixDistances calls. Depth and consistency do not depend
\* on the lengths, which are all 0.0004 here.
InitShapes == InitTree({Name(1)}, {4})

GrowShapes == GrowTree({Name(used + 1)}, {4}, MaxNodes)

NextMutations ==
  \/ GrowShapes
  \/ CallFixDistances
  \/ ops < MaxOps /\ fixes = 0 /\ \E x \in Reachable(heap, root) : CallAddChild(x, {4})
  \/ ops < MaxOps /\ fixes = 0 /\ \E x \in Reachable(heap, root) \ {root} : CallExcise(x)
  \/ ops < MaxOps /\ fixes = 0 /\ \E x \in Reachable(heap, root) \ {root} : CallIsolate(x)
  \/ ops < MaxOps /\ fixes = 0 /\ \E x \in Reachable(heap, root) \ {root} : CallRemove(x)
  \/ ops < MaxOps /\ fixes = 0 /\ \E x \in Reachable(heap, root) \ {root} : CallReroot(x)

SpecMutations == InitShapes /\ [][NextMutations]_vars

\* One excise call on a built tree.
NextExcise ==
  \/ Grow
  \/ ops = 0 /\ \E x \in Reachable(heap, root) : CallExcise(x)

SpecExcise == Init /\ [][NextExcise]_vars

\* A query: the tree is left as it is.
Query(op, self, arg, ret) ==
  /\ last' = Call(op, self, arg, ret, ret = Throw)
  /\ before' = Snapshot
  /\ ops' = ops + 1
  /\ UNCHANGED <<heap, used, root, fixes, text, parsed, result>>

\* a.getMRCA(b)
CallGetMRCA(a, b) == Query("getMRCA", a, b, GetMRCA(heap, a, b))

\* a.distanceTo(b)
CallDistanceTo(a, b) == Query("distanceTo", a, b, DistanceTo(heap, a, b))

\* root.distanceBetween(a, b)
CallDistanceBetween(a, b) ==
  Query("distanceBetween", a, b, DistanceBetween(heap, a, b))

\* x.isolate() while the tree is set up, the caller keeping its root: the
\* heap then holds two trees.
Detach(x) ==
  /\ heap' = Isolate(Walk(heap), x).h
  /\ last' = [NoCall EXCEPT !.op = "isolate", !.self = x]
  /\ UNCHANGED <<used, root, ops, fixes, before, text, parsed, result>>

Constructed == 1..used

\* a.path(b)
CallPath(a, b) ==
  /\ \E p \in {Path(heap, a, b)} :
       /\ result' = p
       /\ last' = Call("path", a, b, Null, p = <<Throw>>)
  /\ before' = Snapshot
  /\ ops' = ops + 1
  /\ UNCHANGED <<heap, used, root, fixes, text, parsed>>

\* One query on two branches of a built tree, or of the two trees left by
\* an isolate. The lengths are 0.0004 and 0.0008.
InitQueries == InitTree({Name(1)}, {4, 8})

GrowQueries == GrowTree({Name(used + 1)}, {4, 8}, MaxNodes)

NextQueries ==
  \/ GrowQueries
  \/ last.op = "none" /\ \E x \in Reachable(heap, root) \ {root} : Detach(x)
  \/ ops = 0 /\ \E a, b \in Constructed : CallGetMRCA(a, b)
  \/ ops = 0 /\ \E a, b \in Constructed : CallDistanceTo(a, b)
  \/ ops = 0 /\ \E a, b \in Constructed : CallDistanceBetween(a, b)
  \/ ops = 0 /\ \E a, b \in Constructed : CallPath(a, b)

SpecQueries == InitQueries /\ [][NextQueries]_vars

\* parseNewick(root.toNewick())
CallRoundTrip ==
  /\ \E newick \in {ToNewick(heap, root, FALSE)} :
       \E r \in {ParseNewick(newick)} :
         /\ text' = newick
         /\ parsed' = IF r.threw THEN <<>> ELSE ToObject(r.h, r.tree)
         /\ last' = Call("roundTrip", root, Null, r.tree, r.threw)
  /\ before' = Snapshot
  /\ ops' = ops + 1
  /\ UNCHANGED <<heap, used, root, fixes, result>>

\* One round trip through Newick text of a built tree whose ids are empty
\* or "A" and whose lengths are 0, 0.0004 or 1.
InitNewick == InitTree({<<>>, <<"A">>}, {0, 4, 10000})

GrowNewick == GrowTree({<<>>, <<"A">>}, {0, 4, 10000}, MaxNewickNodes)

NextNewick ==
  \/ GrowNewick
  \/ ops = 0 /\ CallRoundTrip

SpecNewick == InitNewick /\ [][NextNewick]_vars

\* x.toMatrix()
CallToMatrix(x) ==
  /\ LET m == ToMatrix(heap, x)
     IN  /\ result' = [matrix |-> m.matrix, ids |-> m.ids]
         /\ last' = Call("toMatrix", x, Null, Null, m.threw)
  /\ before' = Snapshot
  /\ ops' = ops + 1
  /\ UNCHANGED <<heap, used, root, fixes, text, parsed>>

\* One toMatrix call on a built tree or on a subtree of it.
NextMatrix ==
  \/ GrowQueries
  \/ ops = 0 /\ \E x \in Reachable(heap, root) : CallToMatrix(x)

SpecMatrix == InitQueries /\ [][NextMatrix]_vars

\* A Newick text for the tree under b, as a caller may write it: "plain"
\* leaves out a length of 0, "lengths" writes every length, and "spaced"
\* puts white space around the commas and colons.
RECURSIVE Written(_, _, _)
RECURSIVE WrittenGroup(_, _, _, _)
Written(h, b, style) ==
  (IF IsLeaf(h, b) THEN <<>>
   ELSE <<"(">> \o WrittenGroup(h, h[b].children, 1, style) \o <<")">>) \o
  h[b].id \o
  (IF h[b].length = 0 /\ style = "plain" THEN <<>>
   ELSE (IF style = "spaced" THEN <<" ", ":", " ">> ELSE <<":">>) \o
        String(h[b].length))

WrittenGroup(h, arr, k, style) ==
  IF k > Len(arr) THEN <<>>
  ELSE Written(h, arr[k], style) \o
       (IF k = Len(arr) THEN <<>>
        ELSE IF style = "spaced" THEN <<" ", ",", " ">> ELSE <<",">>) \o
       WrittenGroup(h, arr, k + 1, style)

Styles == {"plain", "lengths", "spaced"}

\* parseNewick(newick): what the caller sees of the result.
Parse(op, newick) ==
  /\ \E r \in {ParseNewick(newick)} :
         /\ text' = newick
         /\ parsed' = IF r.threw THEN <<>> ELSE ToObject(r.h, r.tree)
         /\ result' = IF r.threw THEN <<>>
                      ELSE [isRoot |-> IsRoot(r.h, r.tree),
                            isConsistent |-> IsConsistent(r.h, r.tree),
                            branches |-> Len(GetDescendants(r.h, r.tree, TRUE)),
                            made |-> Len(r.h)]
         /\ last' = Call(op, root, Null, r.tree, r.threw)
  /\ before' = Snapshot
  /\ ops' = ops + 1
  /\ UNCHANGED <<heap, used, root, fixes>>

\* parseNewick on a text written for the built tree.
CallParseNewick ==
  \E style \in Styles, end \in {<<>>, <<";">>} :
    Parse("parseNewick", Written(heap, root, style) \o end)

RemoveAt(str, i) == SubSeq(str, 1, i - 1) \o SubSeq(str, i + 1, Len(str))

\* parseNewick on a text written for the built tree with one of its
\* parentheses left out.
CallParseUnbalanced ==
  \E newick \in {Written(heap, root, "plain") \o <<";">>} :
    \E i \in DOMAIN newick :
      /\ newick[i] \in {"(", ")"}
      /\ Parse("parseUnbalanced", RemoveAt(newick, i))

\* One parseNewick call on a text for a tree whose branches carry their own
\* name or no name, and a length of 0 or 1.25.
InitParse == InitTree({<<>>, Name(1)}, {0, 12500})

GrowParse == GrowTree({<<>>, Name(used + 1)}, {0, 12500}, MaxNewickNodes)

NextParse ==
  \/ GrowParse
  \/ ops = 0 /\ CallParseNewick
  \/ ops = 0 /\ CallParseUnbalanced

SpecParse == InitParse /\ [][NextParse]_vars

\* Distances given to parseMatrix, in whole numbers.
Distances == {1, 4}

MaxTaxa == 5

\* The most taxa of a matrix given without labels.
MaxUnlabelled == 3

Taxa == 2..MaxTaxa

\* The symmetric matrices with a zero diagonal over Distances.
Matrices(n) ==
  {[i \in 1..n |-> [j \in 1..n |->
      IF i = j THEN 0 ELSE Unit * f[IF i < j THEN <<i, j>> ELSE <<j, i>>]]] :
   f \in [{p \in (1..n) \X (1..n) : p[1] < p[2]} -> Distances]}

\* The additive matrix of four taxa that the documentation gives.
Additive4 ==
  [i \in 1..4 |-> [j \in 1..4 |->
     Unit * <<<<0, 5, 9, 9>>, <<5, 0, 10, 10>>, <<9, 10, 0, 8>>, <<9, 10, 8, 0>>>>[i][j]]]

\* A matrix of six taxa with whole-numbered distances; joining its first and
\* fourth taxon leaves the new branch at a distance of (1 + 1 - 4) / 2 = -1
\* from the sixth.
JoinToMinusOne ==
  [i \in 1..6 |-> [j \in 1..6 |->
     Unit * <<<<0, 8, 8, 4, 8, 1>>, <<8, 0, 1, 1, 2, 1>>, <<8, 1, 0, 4, 4, 1>>,
              <<4, 1, 4, 0, 8, 1>>, <<8, 2, 4, 8, 0, 1>>, <<1, 1, 1, 1, 1, 0>>>>[i][j]]]

\* The matrices parseMatrix is called with: all over Distances of up to
\* MaxTaxa taxa with labels and of up to MaxUnlabelled taxa without, and the
\* two above.
Inputs(n, given) ==
  (IF n <= (IF given THEN MaxTaxa ELSE MaxUnlabelled) THEN Matrices(n) ELSE {}) \cup
  (IF n = 4 /\ given THEN {Additive4} ELSE {}) \cup
  (IF n = 6 /\ given THEN {JoinToMinusOne} ELSE {})

Letter(i) == <<<<"A">>, <<"B">>, <<"C">>, <<"D">>, <<"E">>, <<"F">>, <<"G">>>>[i + 1]

\* parseMatrix(matrix, labels) has been called and has set up its object
\* that; labels are the letters, or are left out, which makes them the
\* numbers of the rows. joined is D[minI][minJ] as the last join read it.
InitMatrix ==
  /\ \E n \in Taxa \cup {4, 6}, given \in BOOLEAN :
       \E matrix \in Inputs(n, given) :
         /\ result = [t |-> SetUp(matrix, [i \in 0..n - 1 |->
                                             IF given THEN Letter(i) ELSE NumberValue(i)]),
                      matrix |-> matrix, given |-> given, done |-> FALSE,
                      joined |-> 0]
         /\ heap = [b \in 1..2 * n - 1 |-> Branch(<<>>, 0, Null)]
  /\ used = 0
  /\ root = Null
  /\ ops = 0
  /\ fixes = 0
  /\ last = NoCall
  /\ before = [heap |-> heap, root |-> root]
  /\ text = <<>>
  /\ parsed = <<>>

\* One pass of the main loop of parseMatrix.
JoinStep ==
  /\ ~result.done
  /\ result.t.cN > 2
  /\ \E m \in {Search(result.t)} :
       \E j \in {JoinPair(heap, used, result.t, m.minI, m.minJ)} :
         /\ heap' = j.h
         /\ used' = j.made
         /\ result' = [result EXCEPT !.t = j.t,
                                      !.joined = result.t.D[m.minI][m.minJ]]
         /\ last' = Call("join", m.minI, m.minJ, j.node, FALSE)
  /\ before' = Snapshot
  /\ ops' = ops + 1
  /\ UNCHANGED <<root, fixes, text, parsed>>

\* The end of parseMatrix, which returns the root.
JoinLast ==
  /\ ~result.done
  /\ result.t.cN = 2
  /\ \E j \in {JoinLeft(heap, used, result.t)} :
       /\ heap' = j.h
       /\ used' = j.made
       /\ root' = j.node
       /\ result' = [result EXCEPT
                       !.t = j.t, !.done = TRUE,
                       !.joined = LET minI == Least(result.t.indicesLeft)
                                  IN  result.t.D[minI][Least(result.t.indicesLeft \ {minI})]]
       /\ last' = Call("parseMatrix", Null, Null, j.node, FALSE)
  /\ before' = Snapshot
  /\ UNCHANGED <<ops, fixes, text, parsed>>

NextJoining ==
  \/ JoinStep
  \/ JoinLast

SpecJoining == InitMatrix /\ [][NextJoining]_vars

\* x.each(callback), x.eachBefore(callback) or x.eachAfter(callback) with a
\* callback that notes the branches it is given.
Traverse(op, x, st) ==
  /\ result' = st.visited
  /\ last' = Call(op, x, Null, x, st.threw)
  /\ before' = Snapshot
  /\ ops' = ops + 1
  /\ UNCHANGED <<heap, used, root, fixes, text, parsed>>

CallEach(x) == Traverse("each", x, Each(Walk(heap), x, "visit"))

CallEachBefore(x) == Traverse("eachBefore", x, EachBefore(Walk(heap), x, "visit"))

CallEachAfter(x) == Traverse("eachAfter", x, EachAfter(Walk(heap), x, "visit"))

\* One traversal of a built tree or of a subtree of it.
NextTraversal ==
  \/ GrowShapes
  \/ ops = 0 /\ \E x \in Reachable(heap, root) : CallEach(x)
  \/ ops = 0 /\ \E x \in Reachable(heap, root) : CallEachBefore(x)
  \/ ops = 0 /\ \E x \in Reachable(heap, root) : CallEachAfter(x)

SpecTraversal == InitShapes /\ [][NextTraversal]_vars

\* p.addChild(c) with c a Branch that exists, of this tree or a root cut off
\* before. Branches from which p is reached through children are left out:
\* with them the children form a cycle, on which isConsistent does not return.
CallAddChildBranch(p, c) ==
  /\ p \notin Reachable(heap, c)
  /\ heap' = AddChildBranch(heap, p, c)
  /\ last' = Call("addChild", p, c, c, FALSE)
  /\ before' = Snapshot
  /\ ops' = ops + 1
  /\ UNCHANGED <<used, root, fixes, text, parsed, result>>

\* Sequences of addChild calls, with new branches and with existing ones.
NextAddChild ==
  \/ GrowShapes
  \/ ops < MaxOps /\ \E p \in Constructed : CallAddChild(p, {4})
  \/ ops < MaxOps /\ \E p, c \in Constructed : CallAddChildBranch(p, c)

SpecAddChild == InitShapes /\ [][NextAddChild]_vars

\* x.invert() returns x; the caller takes x.getRoot() as its tree.
CallInvert(x) ==
  /\ \E st \in {Invert(Walk(heap), x)} :
       /\ heap' = st.h
       /\ root' = IF st.threw THEN root ELSE GetRoot(st.h, x)
       /\ last' = Call("invert", x, Null, IF st.threw THEN Throw ELSE x, st.threw)
  /\ before' = Snapshot
  /\ ops' = ops + 1
  /\ UNCHANGED <<used, fixes, text, parsed, result>>

\* One invert call on any branch of a built tree.
NextInvert ==
  \/ GrowQueries
  \/ ops = 0 /\ \E x \in Reachable(heap, root) : CallInvert(x)

SpecInvert == InitQueries /\ [][NextInvert]_vars

\* x.replace(new Branch({id, length})) returns the root found before.
CallReplace(x) ==
  /\ used < MaxNodes
  /\ \E len \in {4, 8} :
     \E st \in {Replace(Walk([heap EXCEPT ![used + 1] =
                                Branch(Name(used + 1), len, Null)]), x, used + 1)} :
       /\ heap' = st.h
       /\ last' = Call("replace", x, used + 1,
                       IF st.threw THEN Throw ELSE GetRoot(heap, x), st.threw)
       /\ root' = IF st.threw THEN root ELSE GetRoot(heap, x)
  /\ used' = used + 1
  /\ before' = Snapshot
  /\ ops' = ops + 1
  /\ UNCHANGED <<fixes, text, parsed, result>>

\* One replace call on any branch of a built tree.
NextReplace ==
  \/ GrowQueries
  \/ ops = 0 /\ \E x \in Reachable(heap, root) : CallReplace(x)

SpecReplace == InitQueries /\ [][NextReplace]_vars

\* x.removeIfNoChildren(nonrecursive) returns the root found before; the
\* record of the call keeps the flag as its argument, 1 for true.
CallRemoveIfNoChildren(x) ==
  /\ \E nonrecursive \in BOOLEAN :
      \E st \in {RemoveIfNoChildren(Walk(heap), x, nonrecursive)} :
       /\ heap' = st.h
       /\ root' = IF st.threw THEN root ELSE GetRoot(heap, x)
       /\ last' = Call("removeIfNoChildren", x, IF nonrecursive THEN 1 ELSE 0,
                       IF st.threw THEN Throw ELSE GetRoot(heap, x), st.threw)
  /\ before' = Snapshot
  /\ ops' = ops + 1
  /\ UNCHANGED <<used, fixes, text, parsed, result>>

\* One removeIfNoChildren call on any branch of a built tree.
NextRemoveIfNoChildren ==
  \/ GrowQueries
  \/ ops = 0 /\ \E x \in Reachable(heap, root) : CallRemoveIfNoChildren(x)

SpecRemoveIfNoChildren == InitQueries /\ [][NextRemoveIfNoChildren]_vars

\* x.reroot() one step at a time. The while loop and the reverse: result
\* holds the receiver, the array toInvert, the index forEach is at and the
\* heap reroot was called on.
RerootStart(x) ==
  /\ last.op = "none"
  /\ result' = [self |-> x, toInvert |-> Reverse(ToInvert(heap, x)), k |-> 1,
                start |-> Snapshot]
  /\ last' = Call("toInvert", x, Null, Null, FALSE)
  /\ before' = Snapshot
  /\ UNCHANGED <<heap, used, root, ops, fixes, text, parsed>>

\* One call of the callback of forEach: c.invert(). An exception ends reroot.
RerootInvert ==
  /\ last.op \in {"toInvert", "invert"}
  /\ ~last.threw
  /\ result.k <= Len(result.toInvert)
  /\ \E st \in {Invert(Walk(heap), result.toInvert[result.k])} :
       /\ heap' = st.h
       /\ last' = Call("invert", result.toInvert[result.k], Null,
                       IF st.threw THEN Throw ELSE result.toInvert[result.k],
                       st.threw)
  /\ result' = [result EXCEPT !.k = @ + 1]
  /\ before' = Snapshot
  /\ ops' = ops + 1
  /\ UNCHANGED <<used, root, fixes, text, parsed>>

\* The end of forEach: return this.fixDistances(), which the caller takes
\* as its tree.
RerootReturn ==
  /\ last.op \in {"toInvert", "invert"}
  /\ ~last.threw
  /\ result.k > Len(result.toInvert)
  /\ \E st \in {FixDistances(Walk(heap), result.self)} :
       /\ heap' = st.h
       /\ root' = IF st.threw THEN root ELSE result.self
       /\ last' = Call("reroot", result.self, Null,
                       IF st.threw THEN Throw ELSE result.self, st.threw)
  /\ before' = Snapshot
  /\ UNCHANGED <<used, ops, fixes, text, parsed, result>>

\* The state after new Branch({id, length}), no reroot under way.
InitReroot ==
  /\ \E len \in {4, 8} :
       heap = [b \in Nodes |-> IF b = 1 THEN Branch(Name(1), len, Null)
                                ELSE Branch(<<>>, 0, Null)]
  /\ used = 1
  /\ root = 1
  /\ ops = 0
  /\ fixes = 0
  /\ last = NoCall
  /\ before = [heap |-> heap, root |-> root]
  /\ text = <<>>
  /\ parsed = <<>>
  /\ result = [self |-> Null, toInvert |-> <<>>, k |-> 1, start |-> before]

\* One reroot call on any branch of a built tree.
NextReroot ==
  \/ GrowQueries
  \/ \E x \in Reachable(heap, root) : RerootStart(x)
  \/ RerootInvert
  \/ RerootReturn

SpecReroot == InitReroot /\ [][NextReroot]_vars

\* One simplify or consolidate call on the root of a built tree.
NextSimplify ==
  \/ Grow
  \/ ops = 0 /\ CallSimplify
  \/ ops = 0 /\ CallConsolidate

SpecSimplify == Init /\ [][NextSimplify]_vars

(* --------------------------------------------------------------- claims *)
\* The last operation was called on a consistent tree held by its root.
BeforeOK ==
  /\ IsRoot(before.heap, before.root)
  /\ IsConsistent(before.heap, before.root)

Max(S) == CHOOSE m \in S : \A n \in S : n <= m

\* Number of edges from b down to its furthest descendant leaf.
RECURSIVE EdgesToFurthestLeaf(_, _)
EdgesToFurthestLeaf(h, b) ==
  IF IsLeaf(h, b) THEN 0
  ELSE 1 + Max({EdgesToFurthestLeaf(h, h[b].children[i]) : i \in DOMAIN h[b].children})

DistanceFields(h, b) == <<h[b].depth, h[b].height, h[b].value>>

\* C2: a fixDistances call that immediately follows a fixDistances call on
\* the same consistent tree leaves depth, height and value of every branch
\* as the first call left them.
C2_FixDistancesIdempotent ==
  (last.op = "fixDistances" /\ last.prev = "fixDistances" /\ BeforeOK) =>
    \A b \in Reachable(heap, root) :
      DistanceFields(heap, b) = DistanceFields(before.heap, b)

\* C3: after excise, isolate, remove and reroot on branches other than the
\* root and addChild of new branches, fixDistances on the current root gives
\* the root depth 0 and every other reachable branch the depth of its parent
\* plus one, and the tree is consistent.
C3_CleanAfterFix ==
  last.op = "fixDistances" =>
    /\ ~last.threw
    /\ heap[root].depth = 0
    /\ \A b \in Reachable(heap, root) \ {root} :
         heap[b].depth = heap[heap[b].parent].depth + 1
    /\ IsConsistent(heap, root)

C3_Witness ==
  /\ last.op = "fixDistances"
  /\ last.prev \in {"excise", "reroot"}
  /\ \E b \in Reachable(heap, root) : heap[b].depth >= 2

\* C4: after root.fixDistances() on a consistent tree the height of every
\* branch is the number of edges down to its furthest descendant leaf.
C4_HeightIsEdgesToFurthestLeaf ==
  (last.op = "fixDistances" /\ BeforeOK) =>
    \A b \in Reachable(heap, root) : heap[b].height = EdgesToFurthestLeaf(heap, b)

\* excise() was called on a branch other than the root that had a child, in
\* a consistent tree.
ExciseCase ==
  /\ last.op = "excise"
  /\ BeforeOK
  /\ last.self # before.root
  /\ Len(before.heap[last.self].children) >= 1

\* What excise does to the links and lengths around x.
ExciseRelinks ==
  LET x == last.self
      p == before.heap[x].parent
  IN  /\ ~last.threw
      /\ Reachable(heap, root) = Reachable(before.heap, before.root) \ {x}
      /\ \A i \in DOMAIN before.heap[x].children :
           LET c == before.heap[x].children[i]
           IN  /\ heap[c].length = before.heap[c].length + before.heap[x].length
               /\ heap[c].parent = p
               /\ Includes(heap[p].children, c)
      /\ IsRoot(heap, root)
      /\ IsConsistent(heap, root)

\* C5 as stated: excise on a non-root branch x with a child removes exactly
\* x, adds x.length to each child, attaches the children to x's parent,
\* keeps the tree consistent and keeps distanceTo between every two leaves.
C5_ExciseKeepsAllLeafDistances ==
  ExciseCase =>
    /\ ExciseRelinks
    /\ \A a, b \in LeafSet(before.heap, before.root) :
         a # b => DistanceTo(heap, a, b) = DistanceTo(before.heap, a, b)

\* C5 amended: the same, but distanceTo is kept between two leaves whose
\* most recent common ancestor was not x; between two leaves that met at x
\* it grows by twice x.length.
C5_ExciseKeepsDistancesNotMeetingAtX ==
  ExciseCase =>
    /\ ExciseRelinks
    /\ \A a, b \in LeafSet(before.heap, before.root) :
         a # b =>
           DistanceTo(heap, a, b) =
             DistanceTo(before.heap, a, b) +
               (IF GetMRCA(before.heap, a, b) = last.self
                THEN 2 * before.heap[last.self].length ELSE 0)

C5_Witness ==
  /\ ExciseCase
  /\ ~last.threw
  /\ before.heap[last.self].length > 0
  /\ \E a, b, c \in LeafSet(before.heap, before.root) :
       /\ a # b /\ GetMRCA(before.heap, a, b) = last.self
       /\ GetMRCA(before.heap, a, c) # last.self
       /\ DistanceTo(heap, a, c) > 0

\* reroot() was called on a branch other than the root of a consistent tree.
RerootCase ==
  /\ last.op = "reroot"
  /\ BeforeOK
  /\ last.self # before.root

\* C6: reroot on a non-root branch x returns x, x is then a root and
\* consistent, the same branches are reachable from x as were from the old
\* root, and distanceBetween(a, b) is what it was for all distinct leaves
\* a, b of the original tree.
C6_RerootKeepsLeafDistances ==
  RerootCase =>
    /\ ~last.threw
    /\ last.ret = last.self
    /\ IsRoot(heap, last.self)
    /\ IsConsistent(heap, last.self)
    /\ Reachable(heap, last.self) = Reachable(before.heap, before.root)
    /\ \A a, b \in LeafSet(before.heap, before.root) :
         a # b => DistanceBetween(heap, a, b) = DistanceBetween(before.heap, a, b)

\* C7: simplify() on the root of a consistent tree returns normally and
\* leaves no reachable branch with exactly one child.
C7_SimplifyLeavesNoSingleChild ==
  (last.op = "simplify" /\ BeforeOK) =>
    /\ ~last.threw
    /\ \A b \in Reachable(heap, root) : Len(heap[b].children) # 1

\* C8: after consolidate() on the root of a consistent tree no branch other
\* than the root that had a length below 0.0005 is still reachable.
C8_ConsolidateRemovesShortBranches ==
  (last.op = "consolidate" /\ BeforeOK) =>
    /\ ~last.threw
    /\ \A b \in Reachable(before.heap, before.root) \ {before.root} :
         before.heap[b].length < NearZero => b \notin Reachable(heap, root)

\* C1: parseNewick(t.toNewick()) has the topology, the ids and the lengths
\* of t, for every consistent tree t whose ids hold no marker and no white
\* space, a single branch with an id included.
C1_NewickRoundTrip ==
  (last.op = "roundTrip" /\ BeforeOK) =>
    /\ ~last.threw
    /\ parsed = ToObject(heap, root)

RECURSIVE AncestorsOrSelf(_, _)
AncestorsOrSelf(h, b) ==
  {b} \cup (IF IsRoot(h, b) THEN {} ELSE AncestorsOrSelf(h, h[b].parent))

RECURSIVE SumOfLengths(_, _)
SumOfLengths(h, S) ==
  IF S = {} THEN 0
  ELSE LET b == CHOOSE n \in S : TRUE IN h[b].length + SumOfLengths(h, S \ {b})

\* The sum of the lengths of the branches crossed between a and b: those
\* above exactly one of the two, up to their common ancestors.
Patristic(h, a, b) ==
  SumOfLengths(h, (AncestorsOrSelf(h, a) \cup AncestorsOrSelf(h, b)) \
                  (AncestorsOrSelf(h, a) \cap AncestorsOrSelf(h, b)))

SameTree(h, a, b) == GetRoot(h, a) = GetRoot(h, b)

\* The query was made on two branches of consistent trees.
QueryOK ==
  /\ IsConsistent(heap, GetRoot(heap, last.self))
  /\ IsConsistent(heap, GetRoot(heap, last.arg))

\* C9: a.getMRCA(b) returns a branch when a and b are reachable from the
\* same root, and throws exactly when they are not.
C9_GetMRCAThrowsOnlyAcrossTrees ==
  (last.op = "getMRCA" /\ QueryOK) =>
    /\ last.threw <=> ~SameTree(heap, last.self, last.arg)
    /\ ~last.threw => last.ret \in Constructed

\* C10: a.distanceTo(b) and distanceBetween(a, b) are the sum of the lengths
\* of the branches crossed between a and b, for all a and b of one
\* consistent tree.
C10_DistanceIsPatristic ==
  (last.op \in {"distanceTo", "distanceBetween"} /\ QueryOK
     /\ SameTree(heap, last.self, last.arg)) =>
    /\ ~last.threw
    /\ last.ret = Patristic(heap, last.self, last.arg)

\* All leaves of the receiver's subtree are its own children.
IsStar(h, b) == \A l \in LeafSet(h, b) : l # b /\ h[l].parent = b

\* C11: toMatrix() on a consistent tree returns the ids of the leaves in
\* getLeaves order and a square matrix over them that is symmetric, zero on
\* the diagonal and holds the sum of the lengths on the path between the two
\* leaves; on a star tree that is the sum of the two leaves' lengths.
C11_ToMatrixIsPatristic ==
  (last.op = "toMatrix" /\ BeforeOK) =>
    LET leafs == GetLeaves(heap, last.self)
        n == Len(leafs)
    IN  /\ ~last.threw
        /\ result.ids = [i \in 1..n |-> heap[leafs[i]].id]
        /\ DOMAIN result.matrix = 1..n
        /\ \A i, j \in 1..n :
             /\ DOMAIN result.matrix[i] = 1..n
             /\ result.matrix[i][j] = result.matrix[j][i]
             /\ result.matrix[i][i] = 0
             /\ result.matrix[i][j] = Patristic(heap, leafs[i], leafs[j])
             /\ (IsStar(heap, last.self) /\ i # j) =>
                  result.matrix[i][j] = heap[leafs[i]].length + heap[leafs[j]].length

\* toMatrix was called on a tree with three leaves or more, not all at the
\* same depth and not all at the same distance from each other.
C11_Witness ==
  /\ last.op = "toMatrix" /\ BeforeOK
  /\ last.self = root
  /\ Len(result.ids) >= 3
  /\ ~IsStar(heap, root)
  /\ \E i, j, k \in 1..Len(result.ids) :
       i # j /\ j # k /\ i # k /\ result.matrix[i][j] # result.matrix[i][k]


\* C12: parseNewick on a text with balanced parentheses returns the root of
\* a consistent tree; every group of the text is a branch whose children are
\* the elements of the group in order, each with the id and the length
\* written for it (0 when none is written).
C12_ParseNewickBuildsTheWrittenTree ==
  (last.op = "parseNewick" /\ BeforeOK) =>
    /\ ~last.threw
    /\ result.isRoot
    /\ result.isConsistent
    /\ ~IsLeaf(heap, root) => parsed = ToObject(heap, root)

\* A text with a group inside a group, names and lengths was parsed.
C12_Witness ==
  /\ last.op = "parseNewick" /\ BeforeOK
  /\ \E b \in Reachable(heap, root) \ {root} :
       /\ ~IsLeaf(heap, b)
       /\ heap[b].length # 0
       /\ \E c \in Reachable(heap, b) \ {b} : heap[c].id # <<>> /\ heap[c].length # 0
  /\ Len(heap[root].children) >= 2
  /\ parsed = ToObject(heap, root)
  /\ \E i \in DOMAIN text : text[i] = " "


\* C13: parseNewick fails with an error on every text whose parentheses
\* are not balanced; it returns no branch for it.
C13_ParseNewickRejectsUnbalanced ==
  last.op = "parseUnbalanced" => last.threw


\* parseMatrix has returned.
Returned == last.op = "parseMatrix" /\ result.done

LeafIds(h, b) == LET l == GetLeaves(h, b) IN [i \in DOMAIN l |-> h[l[i]].id]

\* C14: for n >= 2 distinct labels and a symmetric matrix of non-negative
\* distances with a zero diagonal, parseMatrix ends after n - 2 passes of
\* its loop and the last join, and returns the parentless root of a
\* consistent tree of 2n - 1 branches in which every branch that is not a
\* leaf has two children and the n leaves carry the n labels, one each.
C14_ParseMatrixBuildsBinaryTree ==
  /\ (~result.done /\ result.t.cN > 2) => Search(result.t).found
  /\ (Returned /\ result.given) =>
       LET n == result.t.N
           ids == LeafIds(heap, root)
       IN  /\ ops = n - 2
           /\ IsRoot(heap, root)
           /\ IsConsistent(heap, root)
           /\ Len(GetDescendants(heap, root, TRUE)) = 2 * n - 1
           /\ Cardinality(Reachable(heap, root)) = 2 * n - 1
           /\ \A b \in Reachable(heap, root) :
                IsLeaf(heap, b) \/ Len(heap[b].children) = 2
           /\ Len(ids) = n
           /\ \A i \in 0..n - 1 :
                Cardinality({k \in DOMAIN ids : ids[k] = Letter(i)}) = 1

\* parseMatrix has returned the tree of five labelled taxa, after a pass of
\* its loop that joined a branch made by an earlier pass.
C14_Witness ==
  /\ Returned /\ result.given
  /\ result.t.N = 5
  /\ \E b \in Reachable(heap, root) \ {root} :
       \E k \in DOMAIN heap[b].children : ~IsLeaf(heap, heap[b].children[k])

\* The row of Additive4 that belongs to a label.
RowOf(id) == CHOOSE i \in 1..4 : Letter(i - 1) = id

LeafWithId(h, b, id) == CHOOSE l \in LeafSet(h, b) : h[l].id = id

LeafIdSet(h, b) == {h[l].id : l \in LeafSet(h, b)}

\* C15: neighbor joining on the additive matrix of A, B, C, D makes A and B
\* children of one branch, has the edge that splits A, B from C, D, and
\* toMatrix() of the tree gives the distances of the matrix back exactly.
C15_AdditiveMatrixIsReproduced ==
  (Returned /\ result.given /\ result.matrix = Additive4) =>
    LET m == ToMatrix(heap, root)
    IN  /\ heap[LeafWithId(heap, root, Letter(0))].parent =
             heap[LeafWithId(heap, root, Letter(1))].parent
        /\ \E b \in Reachable(heap, root) \ {root} :
             LeafIdSet(heap, b) \in {{Letter(0), Letter(1)}, {Letter(2), Letter(3)}}
        /\ ~m.threw
        /\ Len(m.ids) = 4
        /\ \A i, j \in 1..4 :
             m.matrix[i][j] = Additive4[RowOf(m.ids[i])][RowOf(m.ids[j])]

C15_Witness ==
  /\ Returned /\ result.given /\ result.matrix = Additive4
  /\ ops = 2
  /\ LeafIdSet(heap, root) = {Letter(0), Letter(1), Letter(2), Letter(3)}

\* C16: without a labels argument, every row index i from 0 on is the id,
\* in its string form, of exactly one leaf of the tree parseMatrix returns.
C16_DefaultLabelsAreIndexStrings ==
  (Returned /\ ~result.given) =>
    LET ids == LeafIds(heap, root)
    IN  \A i \in 0..result.t.N - 1 :
          Cardinality({k \in DOMAIN ids : ids[k] = IntegerDigits(i)}) = 1

\* The indices that are still joined by the loop.
Active(t) == (0..t.N - 1) \ t.removedIndices

\* C17: in every pass of the main loop, search returns two distinct active
\* indices whose Q is the least among all pairs of distinct active indices,
\* whatever the sorted rows still hold from before later joins.
C17_SearchFindsLeastQ ==
  (~result.done /\ result.t.cN > 2) =>
    LET t == result.t
        m == Search(t)
    IN  /\ m.found
        /\ m.minI \in Active(t) /\ m.minJ \in Active(t) /\ m.minI # m.minJ
        /\ \A a, b \in Active(t) : a # b => Q(t, m.minI, m.minJ) <= Q(t, a, b)

\* A sorted row holds a distance that a join has since replaced.
Stale(t, r) ==
  \E c \in DOMAIN t.S[r] : t.I[r][c] \in Active(t) /\ t.S[r][c] # t.D[r][t.I[r][c]]

\* A search is due while four or more indices are active and the sorted
\* row of one of them is stale.
C17_Witness ==
  /\ ~result.done
  /\ result.t.cN >= 4
  /\ \E r \in Active(result.t) : Stale(result.t, r)

\* The place of b among the children of its parent.
SiblingIndex(h, b) == IndexOf(h[h[b].parent].children, b)

\* The number of edges between b and its ancestor a.
EdgesUp(h, a, b) == Cardinality(AncestorsOrSelf(h, b) \ AncestorsOrSelf(h, a))

\* C18: on a consistent tree and with a callback that changes nothing, each,
\* eachBefore and eachAfter give every branch of the receiver's subtree to
\* the callback exactly once and return the receiver; each goes by
\* non-decreasing depth with siblings from left to right, eachBefore gives a
\* branch before all its descendants and eachAfter after all of them.
C18_TraversalsVisitOnceInOrder ==
  (last.op \in {"each", "eachBefore", "eachAfter"} /\ BeforeOK) =>
    LET v == result
        S == Reachable(heap, last.self)
        Below(a, b) == a # b /\ a \in AncestorsOrSelf(heap, b)
    IN  /\ ~last.threw
        /\ last.ret = last.self
        /\ heap = before.heap
        /\ {v[i] : i \in DOMAIN v} = S
        /\ Len(v) = Cardinality(S)
        /\ \A i, j \in DOMAIN v :
             /\ (last.op = "each" /\ i < j) =>
                  /\ EdgesUp(heap, last.self, v[i]) <= EdgesUp(heap, last.self, v[j])
                  /\ (v[i] # last.self /\ v[j] # last.self
                        /\ heap[v[i]].parent = heap[v[j]].parent) =>
                       SiblingIndex(heap, v[i]) < SiblingIndex(heap, v[j])
             /\ (last.op = "eachBefore" /\ Below(v[i], v[j])) => i < j
             /\ (last.op = "eachAfter" /\ Below(v[i], v[j])) => j < i

\* each was called on a tree in which breadth first differs from depth
\* first.
C18_Witness ==
  /\ last.op = "each" /\ BeforeOK
  /\ last.self = root
  /\ Len(result) >= 4
  /\ result # GetDescendants(heap, root, TRUE)

\* C19: excise() on a root with more than one child throws and leaves the
\* children, parent and length of the root and of every descendant as
\* they were.
C19_ExciseOfForkedRootThrows ==
  (last.op = "excise" /\ BeforeOK /\ last.self = before.root
     /\ Len(before.heap[last.self].children) > 1) =>
    /\ last.threw
    /\ \A b \in Reachable(before.heap, before.root) :
         /\ heap[b].children = before.heap[b].children
         /\ heap[b].parent = before.heap[b].parent
         /\ heap[b].length = before.heap[b].length

\* excise() was called on a root with two children or more, one of which
\* has children and a length of its own.
C19_Witness ==
  /\ last.op = "excise" /\ BeforeOK /\ last.self = before.root
  /\ Len(before.heap[last.self].children) > 1
  /\ before.heap[last.self].length # 0
  /\ \E b \in Reachable(heap, root) \ {root} : ~IsLeaf(heap, b)

\* The branches from b up to its ancestor a, both included.
RECURSIVE ChainUp(_, _, _)
ChainUp(h, b, a) == IF b = a THEN <<b>> ELSE <<b>> \o ChainUp(h, h[b].parent, a)

\* C20: a.path(b) on two branches of one consistent tree returns the
\* branches on the path from a to b, none twice, a first and b last; it is
\* a alone when b is a, and a followed by its ancestors up to b when b is an
\* ancestor of a.
C20_PathRunsFromReceiverToTarget ==
  (last.op = "path" /\ QueryOK /\ SameTree(heap, last.self, last.arg)) =>
    LET p == result
    IN  /\ ~last.threw
        /\ p[1] = last.self
        /\ p[Len(p)] = last.arg
        /\ \A i, j \in DOMAIN p : i # j => p[i] # p[j]
        /\ \A i \in 1..Len(p) - 1 :
             heap[p[i]].parent = p[i + 1] \/ heap[p[i + 1]].parent = p[i]
        /\ last.arg = last.self => p = <<last.self>>
        /\ last.arg \in AncestorsOrSelf(heap, last.self) =>
             p = ChainUp(heap, last.self, last.arg)

\* The proper ancestors of b.
Ancestors(h, b) == AncestorsOrSelf(h, b) \ {b}

\* x was cut off with its subtree: it is a root, its former parent has lost
\* it, and the branches below x are as they were.
Detached(x) ==
  /\ heap[x].parent = Null
  /\ ~Includes(heap[before.heap[x].parent].children, x)
  /\ \A d \in Reachable(before.heap, x) \ {x} : heap[d] = before.heap[d]
  /\ heap[x].children = before.heap[x].children

\* C21: remove(true) on a branch x other than the root of a consistent tree
\* detaches x with its subtree, takes every ancestor that is left without
\* children out of the children of its parent, and returns the root;
\* remove() without the flag changes nothing but x.parent and the children
\* of the parent of x.
C21_RemovePrunesChildlessAncestors ==
  (last.op = "remove" /\ BeforeOK /\ last.self # before.root
     /\ last.self \in Reachable(before.heap, before.root)) =>
    LET x == last.self
        p == before.heap[x].parent
    IN  /\ ~last.threw
        /\ last.ret = before.root
        /\ Detached(x)
        /\ last.arg = 0 =>
             \A b \in Nodes \ {x, p} : heap[b] = before.heap[b]
        /\ last.arg = 1 =>
             \A a \in Ancestors(before.heap, x) \ {before.root} :
               heap[a].children = <<>> =>
                 ~Includes(heap[before.heap[a].parent].children, a)

\* The number of places b takes in children lists, over all branches.
Occurrences(h, b) ==
  Cardinality({<<n, i>> \in Nodes \X (1..MaxNodes + MaxOps) :
                 i \in DOMAIN h[n].children /\ h[n].children[i] = b})

\* C22: after any sequence of addChild calls, with new branches or with
\* branches that are children of another branch already, every branch with a
\* parent is in the children of exactly one branch, once, and that branch is
\* its parent; a root is in no children list; isConsistent() is true on every
\* root.
C22_AddChildKeepsOneParent ==
  \A b \in Constructed :
    /\ heap[b].parent = Null => Occurrences(heap, b) = 0 /\ IsConsistent(heap, b)
    /\ heap[b].parent # Null =>
         /\ Occurrences(heap, b) = 1
         /\ Includes(heap[heap[b].parent].children, b)

\* C23: invert() on a branch b other than the root of a consistent tree,
\* with p its parent: b and p have each other's lengths, p is the last
\* child of b, b is no child of p, the parent of b is the former parent of
\* p, and the tree held by b.getRoot() is consistent and has b in it.
C23_InvertKeepsTreeConsistent ==
  (last.op = "invert" /\ BeforeOK /\ last.self # before.root
     /\ last.self \in Reachable(before.heap, before.root)) =>
    LET b == last.self
        p == before.heap[b].parent
    IN  /\ ~last.threw
        /\ heap[b].length = before.heap[p].length
        /\ heap[p].length = before.heap[b].length
        /\ heap[b].children = Append(before.heap[b].children, p)
        /\ ~Includes(heap[p].children, b)
        /\ heap[b].parent = before.heap[p].parent
        /\ IsConsistent(heap, root)
        /\ b \in Reachable(heap, root)

\* The sum of row i of D over the columns in S.
RECURSIVE SumOver(_, _, _)
SumOver(D, i, S) ==
  IF S = {} THEN 0
  ELSE LET k == CHOOSE n \in S : TRUE IN D[i][k] + SumOver(D, i, S \ {k})

\* C24: whenever the main loop of parseMatrix tests its condition (before
\* every pass and when it leaves), rowSums[i] of every index i left is the
\* sum of D[i][k] over the indices k left, rowSumMax is no smaller than any
\* of them, cN is the number of indices left, and indicesLeft and
\* removedIndices split 0..N-1 between them.
C24_RowSumsFollowTheJoins ==
  ~result.done =>
    LET t == result.t
    IN  /\ \A i \in t.indicesLeft :
             /\ t.rowSums[i] = SumOver(t.D, i, t.indicesLeft)
             /\ t.rowSumMax >= t.rowSums[i]
        /\ t.cN = Cardinality(t.indicesLeft)
        /\ t.indicesLeft \cup t.removedIndices = 0..t.N - 1
        /\ t.indicesLeft \cap t.removedIndices = {}

\* Two joins have been made and the loop goes on; a row that was never
\* joined has a sum other than the one it started with.
C24_Witness ==
  /\ ~result.done
  /\ ops >= 2
  /\ result.t.cN > 2
  /\ \E i \in result.t.indicesLeft :
       /\ result.t.currIndexToLabel[i] < result.t.N
       /\ result.t.rowSums[i] #
            SumOver([a \in 0..result.t.N - 1 |-> [b \in 0..result.t.N - 1 |->
                       result.matrix[a + 1][b + 1]]], i, 0..result.t.N - 1)

\* C25: x.replace(replacement) on a branch x other than the root of a
\* consistent tree puts replacement where x was in the children of the
\* parent of x and returns the root; afterwards the parent of replacement is
\* the former parent of x and root.isConsistent() is true.
C25_ReplaceKeepsTreeConsistent ==
  (last.op = "replace" /\ BeforeOK /\ last.self # before.root
     /\ last.self \in Reachable(before.heap, before.root)) =>
    LET x == last.self
        p == before.heap[x].parent
        replacement == last.arg
    IN  /\ ~last.threw
        /\ last.ret = before.root
        /\ heap[p].children =
             [i \in DOMAIN before.heap[p].children |->
                IF before.heap[p].children[i] = x THEN replacement
                ELSE before.heap[p].children[i]]
        /\ heap[replacement].parent = p
        /\ IsConsistent(heap, last.ret)

\* C26: x.removeIfNoChildren() on a branch x other than the root of a
\* consistent tree returns the root. When x has no children it is taken out
\* of the children of its parent, and so is every ancestor below the root
\* that is left without children; when x has children nothing changes.
C26_RemoveIfNoChildrenPrunes ==
  (last.op = "removeIfNoChildren" /\ last.arg = 0 /\ BeforeOK
     /\ last.self # before.root
     /\ last.self \in Reachable(before.heap, before.root)) =>
    LET x == last.self
    IN  /\ ~last.threw
        /\ last.ret = before.root
        /\ IsLeaf(before.heap, x) =>
             \A a \in AncestorsOrSelf(before.heap, x) \ {before.root} :
               heap[a].children = <<>> =>
                 ~Includes(heap[before.heap[a].parent].children, a)
        /\ ~IsLeaf(before.heap, x) => heap = before.heap

\* C27: for a symmetric matrix of non-negative distances with a zero
\* diagonal, the two branches put under a new branch by a join have
\* lengths that add up to D[minI][minJ] as the join found it, and no branch
\* of the tree parseMatrix returns has a negative length.
C27_JoinedLengthsAreNonNegative ==
  /\ last.op \in {"join", "parseMatrix"} =>
       LET c == heap[last.ret].children
       IN  /\ heap[c[1]].length + heap[c[2]].length = result.joined
           /\ heap[c[1]].length >= 0
           /\ heap[c[2]].length >= 0
  /\ Returned => \A b \in Reachable(heap, root) : heap[b].length >= 0

\* The reroot under way was called on a consistent tree held by its root.
StartOK ==
  /\ IsRoot(result.start.heap, result.start.root)
  /\ IsConsistent(result.start.heap, result.start.root)

\* C28: x.reroot() on a consistent tree inverts, in this order, the
\* branches on the path from the child of the old root down to x, as many
\* as x has ancestors; each of them is a child of the root of the tree when
\* it is inverted, and is the root of a consistent tree that holds every
\* branch right after. reroot then returns x with the distances fixed as
\* the inverts in one go leave them.
C28_RerootInvertsDownThePath ==
  LET s == result.start
      x == result.self
  IN  /\ (last.op = "invert" /\ StartOK) =>
           LET b == last.self
           IN  /\ ~last.threw
               /\ b \in AncestorsOrSelf(s.heap, x)
               /\ EdgesUp(s.heap, s.root, b) = ops
               /\ IsRoot(before.heap, before.heap[b].parent)
               /\ IsRoot(heap, b)
               /\ IsConsistent(heap, b)
               /\ Reachable(heap, b) = Reachable(s.heap, s.root)
      /\ (last.op = "reroot" /\ StartOK) =>
           /\ ~last.threw
           /\ ops = Cardinality(Ancestors(s.heap, x))
           /\ last.ret = x
           /\ heap = Reroot(Walk(s.heap), x).h

\* reroot has returned after three inverts, on a tree in which the path
\* from the root to the receiver has a branch off it.
C28_Witness ==
  /\ last.op = "reroot" /\ StartOK
  /\ ops = 3
  /\ \E a \in Ancestors(result.start.heap, result.self) :
       Len(result.start.heap[a].children) > 1

\* C29: for a and b of one consistent tree, a.distanceTo(b) is
\* b.distanceTo(a) and distanceBetween(a, b) is distanceBetween(b, a)
\* whenever both calls return, one of the two above the other or not.
C29_DistanceIsSymmetric ==
  (last.op \in {"distanceTo", "distanceBetween"} /\ QueryOK
     /\ SameTree(heap, last.self, last.arg) /\ ~last.threw) =>
    LET back == IF last.op = "distanceTo"
                THEN DistanceTo(heap, last.arg, last.self)
                ELSE DistanceBetween(heap, last.arg, last.self)
    IN  back # Throw => last.ret = back

\* The entry for the leaves a and b in m, what toMatrix() returned for the
\* tree with the leaves leafs.
LeafDistance(m, leafs, a, b) ==
  m.matrix[IndexOf(leafs, a) + 1][IndexOf(leafs, b) + 1]

\* The last call returned, the leaves reachable from the root are those of
\* before, and toMatrix() has the distance it had for every two of them.
LeavesUntouched ==
  /\ ~last.threw
  /\ LeafSet(heap, root) = LeafSet(before.heap, before.root)
  /\ \E now \in {ToMatrix(heap, root)},
        then \in {ToMatrix(before.heap, before.root)} :
       \A a, b \in LeafSet(before.heap, before.root) :
         LeafDistance(now, GetLeaves(heap, root), a, b) =
           LeafDistance(then, GetLeaves(before.heap, before.root), a, b)

\* simplify() or consolidate() was called on the root of a consistent tree,
\* a root with two children or more.
ForkedRootCase ==
  /\ last.op \in {"simplify", "consolidate"}
  /\ BeforeOK
  /\ Len(before.heap[before.root].children) >= 2

\* C30: simplify() and consolidate() on a tree whose root has two children
\* or more leave the set of leaves as it was and the distance toMatrix()
\* gives for every two leaves.
C30_SimplifyAndConsolidateKeepLeaves ==
  ForkedRootCase => LeavesUntouched

\* Every branch below the root that consolidate() takes for near zero has
\* length 0 and has children.
OnlyEmptyForks ==
  \A b \in Reachable(before.heap, before.root) \ {before.root} :
    before.heap[b].length < NearZero =>
      before.heap[b].length = 0 /\ ~IsLeaf(before.heap, b)

\* C30, amended: simplify() always does, and consolidate() does when the
\* branches below the root that are shorter than 0.0005 have length 0 and
\* are no leaves.
C30_KeepLeavesUnlessShortOnesGo ==
  (ForkedRootCase /\ (last.op = "consolidate" => OnlyEmptyForks)) =>
    LeavesUntouched

\* consolidate() has excised a branch of length 0 that had two leaves as
\* its children, from a tree that has a third leaf.
C30_Witness ==
  /\ ForkedRootCase /\ last.op = "consolidate" /\ OnlyEmptyForks
  /\ ~last.threw
  /\ Cardinality(LeafSet(heap, root)) >= 3
  /\ \E x \in Reachable(before.heap, before.root) \ Reachable(heap, root) :
       /\ Len(before.heap[x].children) = 2
       /\ \A i \in 1..2 : IsLeaf(before.heap, before.heap[x].children[i])
====
